---- MODULE Spec2Model ----
(***************************************************************************)
(* combine-mc-stats.py: one run of main().  The run checks the supplied    *)
(* path, scans the target folder for *.json, *.1.json and *.2.json files,  *)
(* pairs the generation files by the UUID in their names, deep-sums each   *)
(* matched pair into output_json and writes it to {uuid}.json in the       *)
(* target folder.                                                          *)
(***************************************************************************)
EXTENDS Integers, Sequences, FiniteSets, TLC

VARIABLES
    pathExists,     \* does the path given on the command line exist
    fs,             \* the files under the path: Path -> content
    fs0,            \* the files under the path when the run started
    pc,             \* position of main()
    exit_status,    \* process exit status, -1 until the process ends
    stdout,         \* what print() wrote
    stderr,         \* what sys.exit(message) wrote
    json1_files,    \* sorted *.1.json files
    json2_files,    \* sorted *.2.json files
    i1,             \* position of "for file1 in json1_files"
    i2,             \* position of "for file2 in json2_files"
    matches,        \* number of matched pairs
    output_json,    \* the accumulator of the pair being merged
    nfile,          \* position of "for file in matched_files"
    data,           \* the document loaded from the current file
    outer_todo,     \* categories of data still to visit
    outer_key,      \* category being visited
    inner_todo,     \* keys of the category still to visit
    reads,          \* files opened for reading so far
    scans           \* rglob patterns scanned so far

vars == <<pathExists, fs, fs0, pc, exit_status, stdout, stderr, json1_files,
          json2_files, i1, i2, matches, output_json, nfile, data, outer_todo,
          outer_key, inner_todo, reads, scans>>

----------------------------------------------------------------------------
(* Bounds of the model *)

\* most generation files present under the target folder
MaxFiles == 3

----------------------------------------------------------------------------
(* Python integers.  TLC's integers are 32 bits wide and the sums of the   *)
(* merge exceed that, so a Python int n >= 0 is kept as two limbs          *)
(* <<n \div Base, n % Base>>.                                               *)

Base == 2^16

Ceiling == 2147483647

Py(n) == <<n \div Base, n % Base>>

PyAdd(x, y) ==
    LET lo == x[2] + y[2]
    IN  <<x[1] + y[1] + (lo \div Base), lo % Base>>

PyLT(x, y) == x[1] < y[1] \/ (x[1] = y[1] /\ x[2] < y[2])

PyGE(x, y) == ~PyLT(x, y)

PyMin(x, y) == IF PyLT(y, x) THEN y ELSE x

----------------------------------------------------------------------------
(* File names and pathlib *)

\* code point of the characters used in names
Ord(c) ==
    CASE c = "." -> 46 [] c = "1" -> 49 [] c = "2" -> 50
      [] c = "a" -> 97 [] c = "b" -> 98 [] c = "j" -> 106
      [] c = "n" -> 110 [] c = "o" -> 111 [] c = "s" -> 115
      [] c = "t" -> 116 [] c = "u" -> 117 [] c = "x" -> 120

\* str.__lt__: lexicographic by code point, a proper prefix is smaller
RECURSIVE StrLess(_, _)
StrLess(s, t) ==
    IF t = <<>> THEN FALSE
    ELSE IF s = <<>> THEN TRUE
    ELSE IF Head(s) # Head(t) THEN Ord(Head(s)) < Ord(Head(t))
    ELSE StrLess(Tail(s), Tail(t))

\* the parts of a path relative to the target folder
Parts(p) == IF p.dir = <<>> THEN <<p.name>> ELSE <<p.dir, p.name>>

\* PurePath.__lt__: the lists of parts compared lexicographically
RECURSIVE PartsLess(_, _)
PartsLess(a, b) ==
    IF b = <<>> THEN FALSE
    ELSE IF a = <<>> THEN TRUE
    ELSE IF Head(a) # Head(b) THEN StrLess(Head(a), Head(b))
    ELSE PartsLess(Tail(a), Tail(b))

PathLess(p, q) == PartsLess(Parts(p), Parts(q))

\* faulty variant: sorted in descending order
RECURSIVE SortedDescending(_)
SortedDescending(S) ==
    IF S = {} THEN <<>>
    ELSE LET m == CHOOSE p \in S : \A q \in S \ {p} : PathLess(q, p)
         IN  <<m>> \o SortedDescending(S \ {m})

\* sorted(paths)
RECURSIVE Sorted(_)
Sorted(S) ==
    IF S = {} THEN <<>>
    ELSE LET m == CHOOSE p \in S : \A q \in S \ {p} : PathLess(p, q)
         IN  <<m>> \o Sorted(S \ {m})

\* str.rfind("."), counted from 1; 0 when there is no dot
RFindDot(name) ==
    LET D == {n \in 1..Len(name) : name[n] = "."}
    IN  IF D = {} THEN 0 ELSE CHOOSE n \in D : \A m \in D : m <= n

\* PurePath.suffix: from the last dot, unless the dot leads or ends the name
Suffix(name) ==
    LET d == RFindDot(name)
    IN  IF 1 < d /\ d < Len(name) THEN SubSeq(name, d, Len(name)) ELSE <<>>

\* PurePath.stem: the name without its suffix
Stem(name) ==
    LET d == RFindDot(name)
    IN  IF 1 < d /\ d < Len(name) THEN SubSeq(name, 1, d - 1) ELSE name

EndsWith(name, tail) ==
    /\ Len(tail) <= Len(name)
    /\ SubSeq(name, Len(name) - Len(tail) + 1, Len(name)) = tail

DotJson == <<".", "j", "s", "o", "n">>

Dot1Json == <<".", "1">> \o DotJson

Dot2Json == <<".", "2">> \o DotJson

\* target.rglob("*" + tail): every file under the target, at any depth,
\* whose name ends with tail
RGlob(files, tail) == {p \in DOMAIN files : EndsWith(p.name, tail)}

\* file.suffix[0]
SuffixChar(p) == Head(Suffix(p.name))

\* "suffix not in file.stem"
BadName(p) == \A n \in 1..Len(Stem(p.name)) : Stem(p.name)[n] # SuffixChar(p)

\* file.stem[:file.stem.index(suffix)]
Uuid(p) ==
    LET stem == Stem(p.name)
        idx  == CHOOSE n \in 1..Len(stem) :
                    /\ stem[n] = SuffixChar(p)
                    /\ \A m \in 1..(n - 1) : stem[m] # SuffixChar(p)
    IN  SubSeq(stem, 1, idx - 1)

Root == <<>>

\* faulty variant: the sequence number of file1 is kept in the output name
GenOutputFilePath(uuid) == [dir |-> <<>>, name |-> uuid \o Dot1Json]

\* target / f"{uuid1}.json"
OutputFilePath(uuid) == [dir |-> Root, name |-> uuid \o DotJson]

----------------------------------------------------------------------------
(* Documents and the merge of lines 141-173 *)

EmptyMap == [x \in {} |-> 0]

\* dict[k] = v
Put(f, k, v) == [x \in DOMAIN f \cup {k} |-> IF x = k THEN v ELSE f[x]]

\* {"stats": {}, "DataVersion": 0}
EmptyDocument == [stats |-> EmptyMap, DataVersion |-> 0]

\* faulty variant: the accumulator of the previous pair is kept
CarriedAccumulator == output_json

\* the accumulator a matched pair starts from
PairAccumulator == EmptyDocument

\* faulty variant: the last DataVersion read wins
LastVersion(out, doc) == [out EXCEPT !.DataVersion = doc.DataVersion]

\* "Always keep the highest DataVersion number"
KeepHighest(out, doc) ==
    IF doc.DataVersion > out.DataVersion
    THEN [out EXCEPT !.DataVersion = doc.DataVersion]
    ELSE out

\* "Create outer key if it doesn't already exist"
CreateOuter(out, outer) ==
    IF outer \notin DOMAIN out.stats
    THEN [out EXCEPT !.stats = Put(out.stats, outer, EmptyMap)]
    ELSE out

\* faulty variant: no ceiling
NoClamp(v) == v

\* "Minecraft loses its mind if values are larger than 2,147,483,647"
Clamp(v) == IF PyGE(v, Py(Ceiling)) THEN Py(Ceiling) ELSE v

\* faulty variant: the value replaces the entry instead of being added to it
StoreValue(cur, value) == value

\* output_json["stats"][outer_key][inner_key] += value
Increment(cur, value) == PyAdd(cur, value)

\* faulty variant: a key the accumulator lacks is created but its value is dropped
AddValueIfPresent(out, outer, inner, value) ==
    LET cat == out.stats[outer]
        new == IF inner \notin DOMAIN cat
               THEN Py(0)
               ELSE Clamp(Increment(cat[inner], value))
    IN  [out EXCEPT !.stats = Put(out.stats, outer, Put(cat, inner, new))]

\* lines 164-173: create the inner key at 0 if absent, add the value, clamp
AddValue(out, outer, inner, value) ==
    LET cat == out.stats[outer]
        cur == IF inner \notin DOMAIN cat THEN Py(0) ELSE cat[inner]
    IN  [out EXCEPT !.stats =
            Put(out.stats, outer, Put(cat, inner, Clamp(Increment(cur, value))))]

\* the loop of lines 162-173 over the keys in todo
RECURSIVE MergeInner(_, _, _, _)
MergeInner(out, doc, outer, todo) ==
    IF todo = {} THEN out
    ELSE LET inner == CHOOSE k \in todo : TRUE
         IN  MergeInner(AddValue(out, outer, inner, doc.stats[outer][inner]),
                        doc, outer, todo \ {inner})

\* the loop of lines 154-173 over the categories in todo
RECURSIVE MergeOuter(_, _, _)
MergeOuter(out, doc, todo) ==
    IF todo = {} THEN out
    ELSE LET outer == CHOOSE c \in todo : TRUE
         IN  MergeOuter(MergeInner(CreateOuter(out, outer), doc, outer,
                                   DOMAIN doc.stats[outer]),
                        doc, todo \ {outer})

\* one pass of "for file in matched_files" over a loaded document
MergeFile(out, doc) == MergeOuter(KeepHighest(out, doc), doc, DOMAIN doc.stats)

\* the document lines 141-173 build from the documents of file1 and file2
MergeDocs(a, b) == MergeFile(MergeFile(EmptyDocument, a), b)

----------------------------------------------------------------------------
(* The folders the run is started on *)

NameA1 == <<"a">> \o Dot1Json

NameA2 == <<"a">> \o Dot2Json

NameB1 == <<"b">> \o Dot1Json

NameB2 == <<"b">> \o Dot2Json

\* a second generation-1 file of player a
NameAB1 == <<"a", ".", "b">> \o Dot1Json

\* a JSON file without a sequence number, also where player a's output goes
NameA == <<"a">> \o DotJson

NameTxt == <<"n", ".", "t", "x", "t">>

Sub == <<"s", "u", "b">>

File(dir, name) == [dir |-> dir, name |-> name]

GenPaths ==
    {File(Root, n) : n \in {NameA1, NameA2, NameB1, NameB2, NameAB1}}
        \cup {File(Sub, n) : n \in {NameA1, NameA2}}

OtherPaths == {File(Root, NameA), File(Root, NameTxt)}

\* partial maps from K to V
Maps(K, V) == UNION {[S -> V] : S \in SUBSET K}

Categories == {"custom", "mined"}

Keys == {"jump"}

Values == {Py(5), Py(1500000000), Py(Ceiling)}

Versions == {100, 200}

\* the documents a matched pair is drawn from
Docs == [stats : Maps(Categories, Maps(Keys, Values)), DataVersion : Versions]

Doc(custom, version) == [stats |-> [c \in {"custom"} |-> custom],
                         DataVersion |-> version]

\* the documents the files of a folder hold
DocPool ==
    {Doc([k \in {"jump"} |-> Py(5)], 100),
     Doc([k \in {"jump", "walk"} |->
            IF k = "jump" THEN Py(10) ELSE Py(1500000000)], 200)}

\* content of a file that is no stats document
Text == [text |-> "notes"]

OtherContent(p) ==
    IF p.name = NameTxt THEN Text ELSE Doc([k \in {"jump"} |-> Py(1)], 50)

Folders ==
    {g @@ [p \in O |-> OtherContent(p)] :
        g \in UNION {[G -> DocPool] :
                        G \in {H \in SUBSET GenPaths : Cardinality(H) <= MaxFiles}},
        O \in SUBSET OtherPaths}

\* one matched pair, over every two documents
PairFolders ==
    {File(Root, NameA1) :> a @@ File(Root, NameA2) :> b : a \in Docs, b \in Docs}

----------------------------------------------------------------------------
(* The run *)

Init ==
    /\ \/ pathExists = TRUE /\ fs \in Folders \cup PairFolders
       \/ pathExists = FALSE /\ fs = EmptyMap
    /\ fs0 = fs
    /\ pc = "start"
    /\ exit_status = -1
    /\ stdout = <<>>
    /\ stderr = <<>>
    /\ json1_files = <<>>
    /\ json2_files = <<>>
    /\ i1 = 0
    /\ i2 = 0
    /\ matches = 0
    /\ output_json = EmptyDocument
    /\ nfile = 0
    /\ data = EmptyDocument
    /\ outer_todo = {}
    /\ outer_key = ""
    /\ inner_todo = {}
    /\ reads = {}
    /\ scans = {}

\* print(...); exit()
Exit(out) ==
    /\ stdout' = Append(stdout, out)
    /\ exit_status' = 0
    /\ pc' = "exit"
    /\ UNCHANGED stderr

\* sys.exit(message): the message goes to stderr, the status is 1
SysExit(message) ==
    /\ stderr' = Append(stderr, message)
    /\ exit_status' = 1
    /\ pc' = "exit"

\* handle_command_line(): lines 41-82
HandleCommandLine ==
    /\ pc = "start"
    /\ IF ~pathExists
       THEN Exit(<<"Specified path not found">>)
       ELSE pc' = "scan" /\ UNCHANGED <<stdout, stderr, exit_status>>
    /\ UNCHANGED <<pathExists, fs, fs0, json1_files, json2_files, i1, i2,
                   matches, output_json, nfile, data, outer_todo, outer_key,
                   inner_todo, reads, scans>>

\* faulty variant: the no-input check is missing
NeverNoInput(json_files) == FALSE

\* files_found == 0
NoInput(json_files) == Len(json_files) = 0

\* lines 101-112: the scans and the no-input check
Scan ==
    /\ pc = "scan"
    /\ LET json_files == Sorted(RGlob(fs, DotJson))
       IN  IF NoInput(json_files)
           THEN /\ SysExit(<<"There are no JSON files">>)
                /\ scans' = scans \cup {DotJson}
                /\ UNCHANGED <<stdout, json1_files, json2_files, i1, matches>>
           ELSE /\ json1_files' = Sorted(RGlob(fs, Dot1Json))
                /\ json2_files' = Sorted(RGlob(fs, Dot2Json))
                /\ scans' = scans \cup {DotJson, Dot1Json, Dot2Json}
                /\ stdout' = Append(stdout,
                       <<"Combining", Len(json1_files'), Len(json2_files')>>)
                /\ matches' = 0
                /\ i1' = 1
                /\ pc' = "for_file1"
                /\ UNCHANGED <<stderr, exit_status>>
    /\ UNCHANGED <<pathExists, fs, fs0, i2, output_json, nfile, data,
                   outer_todo, outer_key, inner_todo, reads>>

file1 == json1_files[i1]

file2 == json2_files[i2]

matched_files == <<file1, file2>>

\* lines 114-124: next file1, its name check; line 182 when the loop ends
ForFile1 ==
    /\ pc = "for_file1"
    /\ IF i1 > Len(json1_files)
       THEN /\ stdout' = Append(stdout, <<"Matched", matches>>)
            /\ exit_status' = 0
            /\ pc' = "done"
            /\ UNCHANGED <<stderr, i2>>
       ELSE IF BadName(file1)
       THEN /\ SysExit(<<"has unexpected name", file1.name>>)
            /\ UNCHANGED <<stdout, i2>>
       ELSE /\ i2' = 1
            /\ pc' = "for_file2"
            /\ UNCHANGED <<stdout, stderr, exit_status>>
    /\ UNCHANGED <<pathExists, fs, fs0, json1_files, json2_files, i1, matches,
                   output_json, nfile, data, outer_todo, outer_key, inner_todo,
                   reads, scans>>

\* lines 126-141: next file2, its name check, the UUID comparison
ForFile2 ==
    /\ pc = "for_file2"
    /\ IF i2 > Len(json2_files)
       THEN /\ i1' = i1 + 1
            /\ pc' = "for_file1"
            /\ UNCHANGED <<stdout, stderr, exit_status, i2, matches,
                           output_json, nfile>>
       ELSE IF BadName(file2)
       THEN /\ SysExit(<<"has unexpected name", file2.name>>)
            /\ UNCHANGED <<stdout, i1, i2, matches, output_json, nfile>>
       ELSE IF Uuid(file1) = Uuid(file2)
       THEN /\ stdout' = Append(stdout, <<"Match found", Uuid(file1)>>)
            /\ matches' = matches + 1
            /\ output_json' = PairAccumulator
            /\ nfile' = 1
            /\ pc' = "for_file"
            /\ UNCHANGED <<stderr, exit_status, i1, i2>>
       ELSE /\ i2' = i2 + 1
            /\ UNCHANGED <<pc, stdout, stderr, exit_status, i1, matches,
                           output_json, nfile>>
    /\ UNCHANGED <<pathExists, fs, fs0, json1_files, json2_files, data,
                   outer_todo, outer_key, inner_todo, reads, scans>>

\* lines 143-151: load the next matched file, keep the highest DataVersion
ForFile ==
    /\ pc = "for_file"
    /\ IF nfile > Len(matched_files)
       THEN /\ pc' = "write"
            /\ UNCHANGED <<data, output_json, outer_todo, reads>>
       ELSE LET file == matched_files[nfile]
            IN  /\ data' = fs[file]
                /\ reads' = reads \cup {file}
                /\ output_json' = KeepHighest(output_json, data')
                /\ outer_todo' = DOMAIN data'.stats
                /\ pc' = "for_outer_key"
    /\ UNCHANGED <<pathExists, fs, fs0, exit_status, stdout, stderr,
                   json1_files, json2_files, i1, i2, matches, nfile, outer_key,
                   inner_todo, scans>>

\* lines 154-158: next category of data, created in the accumulator if absent
ForOuterKey ==
    /\ pc = "for_outer_key"
    /\ IF outer_todo = {}
       THEN /\ nfile' = nfile + 1
            /\ pc' = "for_file"
            /\ UNCHANGED <<output_json, outer_todo, outer_key, inner_todo>>
       ELSE \E outer \in outer_todo :
                /\ outer_key' = outer
                /\ outer_todo' = outer_todo \ {outer}
                /\ output_json' = CreateOuter(output_json, outer)
                /\ inner_todo' = DOMAIN data.stats[outer]
                /\ pc' = "for_inner_key"
                /\ UNCHANGED nfile
    /\ UNCHANGED <<pathExists, fs, fs0, exit_status, stdout, stderr,
                   json1_files, json2_files, i1, i2, matches, data, reads,
                   scans>>

\* lines 162-173: next key of the category, added to the accumulator
ForInnerKey ==
    /\ pc = "for_inner_key"
    /\ IF inner_todo = {}
       THEN /\ pc' = "for_outer_key"
            /\ UNCHANGED <<output_json, inner_todo>>
       ELSE \E inner \in inner_todo :
                /\ inner_todo' = inner_todo \ {inner}
                /\ output_json' = AddValue(output_json, outer_key, inner,
                                           data.stats[outer_key][inner])
                /\ UNCHANGED pc
    /\ UNCHANGED <<pathExists, fs, fs0, exit_status, stdout, stderr,
                   json1_files, json2_files, i1, i2, matches, nfile, data,
                   outer_todo, outer_key, reads, scans>>

\* lines 175-180: write the accumulator to {uuid1}.json in the target folder
WriteOutput ==
    /\ pc = "write"
    /\ fs' = Put(fs, OutputFilePath(Uuid(file1)), output_json)
    /\ i2' = i2 + 1
    /\ pc' = "for_file2"
    /\ UNCHANGED <<pathExists, fs0, exit_status, stdout, stderr, json1_files,
                   json2_files, i1, matches, output_json, nfile, data,
                   outer_todo, outer_key, inner_todo, reads, scans>>

Next ==
    \/ HandleCommandLine
    \/ Scan
    \/ ForFile1
    \/ ForFile2
    \/ ForFile
    \/ ForOuterKey
    \/ ForInnerKey
    \/ WriteOutput

Spec == Init /\ [][Next]_vars

----------------------------------------------------------------------------
(* Properties of the merge of one matched pair *)

\* the two documents of the pair being merged
docA == fs[file1]

docB == fs[file2]

KeysOf(doc, c) == IF c \in DOMAIN doc.stats THEN DOMAIN doc.stats[c] ELSE {}

\* doc.stats.get(c, {}).get(k, 0)
ValueOf(doc, c, k) == IF k \in KeysOf(doc, c) THEN doc.stats[c][k] ELSE Py(0)

Max(m, n) == IF m > n THEN m ELSE n

\* C1: when a pair has been merged, the accumulator holds exactly the
\* categories and keys of either document, and each value is
\* min(2147483647, a + b), an absent category or key counting as 0.
C1_SaturatingSum ==
    pc = "write" =>
        /\ DOMAIN output_json.stats = DOMAIN docA.stats \cup DOMAIN docB.stats
        /\ \A c \in DOMAIN output_json.stats :
            /\ DOMAIN output_json.stats[c] = KeysOf(docA, c) \cup KeysOf(docB, c)
            /\ \A k \in DOMAIN output_json.stats[c] :
                  output_json.stats[c][k] =
                      PyMin(Py(Ceiling),
                            PyAdd(ValueOf(docA, c, k), ValueOf(docB, c, k)))

\* a merged pair with a key only file1 has and a sum above the ceiling
C1_Witness ==
    /\ pc = "write"
    /\ \E c \in DOMAIN docA.stats : \E k \in KeysOf(docA, c) :
           k \notin KeysOf(docB, c)
    /\ \E c \in DOMAIN output_json.stats : \E k \in DOMAIN output_json.stats[c] :
           PyLT(Py(Ceiling), PyAdd(ValueOf(docA, c, k), ValueOf(docB, c, k)))

\* C2: the merged DataVersion is the larger of the two documents' DataVersions.
C2_HighestDataVersion ==
    pc = "write" =>
        output_json.DataVersion = Max(docA.DataVersion, docB.DataVersion)

\* a merged pair whose first document has the larger DataVersion
C2_Witness == pc = "write" /\ docA.DataVersion > docB.DataVersion

\* C3: merging file1 then file2 gives the document that merging file2 then
\* file1 gives: the same DataVersion and the same category/key/value mapping.
C3_Commutative == pc = "write" => output_json = MergeDocs(docB, docA)

\* a merged pair of different documents that share a key and differ in version
C3_Witness ==
    /\ pc = "write"
    /\ docA # docB
    /\ docA.DataVersion # docB.DataVersion
    /\ \E c \in DOMAIN docA.stats : \E k \in KeysOf(docA, c) :
           k \in KeysOf(docB, c) /\ docA.stats[c][k] # docB.stats[c][k]

\* C4: every step leaves every accumulator value at most 2147483647, and a
\* value that is at the ceiling is still at the ceiling after the step, as
\* long as the accumulator has the key.
C4_CeilingKept ==
    [][\A c \in DOMAIN output_json'.stats :
          \A k \in DOMAIN output_json'.stats[c] :
             /\ ~PyLT(Py(Ceiling), output_json'.stats[c][k])
             /\ (/\ c \in DOMAIN output_json.stats
                 /\ k \in DOMAIN output_json.stats[c]
                 /\ output_json.stats[c][k] = Py(Ceiling))
                    => output_json'.stats[c][k] = Py(Ceiling)]_vars

\* file1 brought a key to the ceiling and file2's value for it has been added
C4_Witness ==
    /\ pc = "for_inner_key"
    /\ nfile = 2
    /\ \E k \in DOMAIN data.stats[outer_key] \ inner_todo :
          /\ ValueOf(docA, outer_key, k) = Py(Ceiling)
          /\ output_json.stats[outer_key][k] = Py(Ceiling)

----------------------------------------------------------------------------
(* Properties of the run *)

Gen1(files) == RGlob(files, Dot1Json)

Gen2(files) == RGlob(files, Dot2Json)

\* the matched pairs of the folder the run started on
Pairs == {pr \in Gen1(fs0) \X Gen2(fs0) : Uuid(pr[1]) = Uuid(pr[2])}

\* pr is merged before qr: file1 is the outer loop, file2 the inner loop
PairBefore(pr, qr) ==
    \/ PathLess(pr[1], qr[1])
    \/ pr[1] = qr[1] /\ PathLess(pr[2], qr[2])

\* the last pair merged among those with the UUID of pr
LastOfUuid(pr) ==
    \A qr \in Pairs : Uuid(qr[1]) = Uuid(pr[1]) => ~PairBefore(pr, qr)

OutputOf(pr) == [dir |-> Root, name |-> Uuid(pr[1]) \o DotJson]

\* C5 as stated: after a completed run, every matched pair's merge is the
\* content of {uuid}.json in the target folder.
C5_EveryPairHasItsOutput ==
    pc = "done" =>
        \A pr \in Pairs :
            /\ OutputOf(pr) \in DOMAIN fs
            /\ fs[OutputOf(pr)] = MergeDocs(fs0[pr[1]], fs0[pr[2]])

\* C5 amended: after a completed run, {uuid}.json in the target folder holds
\* the merge of the last matched pair with that UUID in processing order, and
\* the only files the run added are the outputs of the matched UUIDs.
C5_LastPairIsTheOutput ==
    pc = "done" =>
        /\ \A pr \in Pairs :
              /\ OutputOf(pr) \in DOMAIN fs
              /\ LastOfUuid(pr) =>
                    fs[OutputOf(pr)] = MergeDocs(fs0[pr[1]], fs0[pr[2]])
        /\ DOMAIN fs = DOMAIN fs0 \cup {OutputOf(pr) : pr \in Pairs}
        /\ matches = Cardinality(Pairs)

\* a completed run over two pairs of one UUID whose merges differ
C5_Witness ==
    /\ pc = "done"
    /\ \E pr \in Pairs, qr \in Pairs :
          /\ pr # qr
          /\ Uuid(pr[1]) = Uuid(qr[1])
          /\ MergeDocs(fs0[pr[1]], fs0[pr[2]]) # MergeDocs(fs0[qr[1]], fs0[qr[2]])

\* a *.json file whose stem lacks the sequence number
LacksGeneration(p) ==
    /\ EndsWith(p.name, DotJson)
    /\ ~EndsWith(p.name, Dot1Json)
    /\ ~EndsWith(p.name, Dot2Json)

\* C6 as stated: with a JSON file that lacks the sequence number in the
\* folder, the run ends with the unexpected-name error naming that file and
\* has written nothing.
C6_MalformedNameAborts ==
    (pc \in {"done", "exit"} /\ \E p \in DOMAIN fs0 : LacksGeneration(p)) =>
        /\ pc = "exit"
        /\ exit_status # 0
        /\ \E p \in DOMAIN fs0 :
              /\ LacksGeneration(p)
              /\ \E n \in 1..Len(stderr) :
                    stderr[n] = <<"has unexpected name", p.name>>
        /\ fs = fs0

\* C7: with no *.json file under the target the run ends with the no-input
\* error and status 1, having scanned for *.json only, read no file and
\* changed no file.
C7_NoInputChangesNothing ==
    (pathExists /\ RGlob(fs0, DotJson) = {}) =>
        /\ fs = fs0
        /\ reads = {}
        /\ matches = 0
        /\ pc \in {"start", "scan", "exit"}
        /\ pc = "exit" =>
              /\ exit_status = 1
              /\ stderr = <<(<<"There are no JSON files">>)>>
              /\ scans = {DotJson}

\* the run has ended on a folder that holds a file, but no JSON file
C7_Witness ==
    /\ pc = "exit"
    /\ pathExists
    /\ File(Root, NameTxt) \in DOMAIN fs0
    /\ RGlob(fs0, DotJson) = {}

\* C8 as stated: every fatal exit leaves a message and a non-zero status,
\* and a path that does not exist ends the run before any scan, read or write.
C8_FatalExitsAreNonZero ==
    pc = "exit" =>
        /\ exit_status # 0
        /\ Len(stdout) + Len(stderr) > 0
        /\ ~pathExists => (scans = {} /\ reads = {} /\ fs = fs0)

\* C9: every file the folder held as *.1.json or *.2.json when the run
\* started is still there with the content it had.
C9_SourcesUntouched ==
    \A p \in Gen1(fs0) \cup Gen2(fs0) : p \in DOMAIN fs /\ fs[p] = fs0[p]

\* a completed run that wrote an output
C9_Witness == pc = "done" /\ matches > 0 /\ fs # fs0

\* C10: every pair starts from the empty accumulator, and what is about to be
\* written for it is the merge of its own two documents, whatever was merged
\* before.
C10_PairsIndependent ==
    /\ (pc = "for_file" /\ nfile = 1) => output_json = EmptyDocument
    /\ pc = "write" => output_json = MergeDocs(docA, docB)

\* the second pair of a run is about to be written, after a first pair that
\* left a different document
C10_Witness ==
    /\ pc = "write"
    /\ matches >= 2
    /\ \E p \in DOMAIN fs \ DOMAIN fs0 : fs[p] # output_json

====
